---- MODULE Spec2Model ----
(***************************************************************************)
(* Orchestration core of lekh_ai: the LangGraph supervisor and its routing *)
(* (backend/agent/graph.py), the four generation agents                    *)
(* (backend/agent/agents), the Celery driver                               *)
(* (backend/app/services/story_runner.py), the story HTTP endpoints        *)
(* (backend/app/api/endpoints/stories.py) and the websocket manager        *)
(* (backend/app/websocket/manager.py), for one story_id.                   *)
(*                                                                         *)
(* A status string is modelled as the sequence of its "_"-separated words, *)
(* so that Python's substring tests ("AWAITING" in status) are computed,   *)
(* not assumed: over the words used here none is a substring of another    *)
(* one that the code searches for, so word containment and character       *)
(* containment agree.                                                      *)
(*                                                                         *)
(* Python's None is "None" for string fields, << >> for the status, {} for *)
(* the optional deviation proposal, and 0 for an absent chapter number.    *)
(*                                                                         *)
(* The graph runtime (LangGraph) and the worker (Celery) are libraries:    *)
(* interrupt_before ends the stream before a checkpoint node, and every    *)
(* run compiles the graph with a new MemorySaver, so no run continues the  *)
(* thread of an earlier one.  Each item of graph.astream is read as the    *)
(* driver reads it, as the graph state after a node.  Whether the edge     *)
(* function's assignment to its argument reaches the graph state is drawn  *)
(* in edge_shared.  Under Spec and SpecNodes one process executes the      *)
(* tasks of the story; SpecWorkers has a pool of them, and reads no hist.  *)
(***************************************************************************)
EXTENDS Integers, Sequences, FiniteSets, TLC

VARIABLES
    db,            \* story_sessions row of the story: its control_state, or NoRow
    kg,            \* the Neo4j nodes of the story
    pending,       \* run_story_generation_task messages queued by .delay()
    pc,            \* position of the Celery worker in run_story_generation_task
    retries,       \* self.request.retries of the task being executed
    agent_state,   \* the graph state (AgentState) of the running driver
    next_node,     \* the node the compiled graph runs next
    step_count,    \* step_count of _run_story_generation_async
    final_state,   \* final_state of _run_story_generation_async ({} = None)
    edge_shared,   \* does the runtime hand route_from_supervisor the live state?
    hist,          \* history of the current/last run, for stating the claims
    fn,            \* the last node function applied on its own, with input and output
    parked,        \* the locals of the other processes of the worker pool
    active_connections, \* WebSocketManager.active_connections: story_id -> websockets
    subscribed,    \* the channels the manager's pubsub is subscribed to
    handler        \* position of each websocket's handle_websocket_communication

\* The WebSocketManager of the API process.
manager_vars == <<active_connections, subscribed, handler>>

vars == <<db, kg, pending, pc, retries, agent_state, next_node, step_count,
          final_state, edge_shared, hist, fn, parked, manager_vars>>

----------------------------------------------------------------------------
(* Bounds of the model. *)

\* HTTP calls to POST /stories/{id}/interact the model lets a client make.
MaxInteract == 1

\* Longest task_queue drawn as an input.
MaxQueueLen == 2

\* Task messages queued from outside the two endpoints.
MaxSubmit == 1

\* Processes of the worker pool that take messages of the story_generation queue.
MaxWorkers == 2

\* The in-memory logs the persist is applied to have up to MaxLogLen entries.
MaxLogLen == 12

\* Websockets opened on the story.
MaxSockets == 3

(* Program constants. *)

\* @celery_app.task(bind=True, max_retries=3)
max_retries == 3

\* if step_count % 3 == 0
PersistEvery == 3

\* state.get("messages", [])[-10:]
LogWindow == 10

\* WHERE ... length(c.backstory) < 50
StubBackstoryLen == 50

\* len(backstory) < 20 or len(motivation) < 15
MinBackstoryLen == 20

MinMotivationLen == 15

----------------------------------------------------------------------------
(* Status strings, as word sequences. *)

NoStatus == << >>

AWAITING == <<"AWAITING">>

AWAITING_USER_APPROVAL == <<"AWAITING", "USER", "APPROVAL">>

ApprovalFor(x) == AWAITING_USER_APPROVAL \o <<"FOR", x>>

Levels == {"CONCEPT", "CHARACTERS", "ARCS", "CHAPTERS", "SCENES"}

Approved(x) == <<x, "APPROVED">>

INITIALIZING == <<"INITIALIZING">>

AWAITING_USER_CLARIFICATION == <<"AWAITING", "USER", "CLARIFICATION">>

AWAITING_DEVIATION_APPROVAL == <<"AWAITING", "DEVIATION", "APPROVAL">>

AWAITING_USER_INPUT == <<"AWAITING", "USER", "INPUT">>

PROCESSING_FEEDBACK == <<"PROCESSING", "FEEDBACK">>

DEVIATION_APPROVED == <<"DEVIATION", "APPROVED">>

CHARACTER_DEVELOPMENT_COMPLETE == <<"CHARACTER", "DEVELOPMENT", "COMPLETE">>

READY_FOR_WRITING == <<"READY", "FOR", "WRITING">>

SCENE_COMPLETED == <<"SCENE", "COMPLETED">>

WRITING_COMPLETE == <<"WRITING", "COMPLETE">>

ERROR == <<"ERROR">>

READY == <<"READY">>

APPROVED == <<"APPROVED">>

\* The closed status vocabulary of the state machine.
Vocabulary ==
    {INITIALIZING, AWAITING_USER_CLARIFICATION, PROCESSING_FEEDBACK,
     AWAITING_DEVIATION_APPROVAL, DEVIATION_APPROVED,
     CHARACTER_DEVELOPMENT_COMPLETE, READY_FOR_WRITING, SCENE_COMPLETED,
     WRITING_COMPLETE, ERROR}
    \cup {ApprovalFor(x) : x \in Levels} \cup {Approved(x) : x \in Levels}

\* Python's `needle in haystack` on strings.
Contains(haystack, needle) ==
    \E i \in 0..(Len(haystack) - Len(needle)) :
        SubSeq(haystack, i + 1, i + Len(needle)) = needle

\* Python's `not x` for a list.
IsEmpty(seq) == Len(seq) = 0

\* Python's seq[1:].
Rest(seq) == IF IsEmpty(seq) THEN << >> ELSE Tail(seq)

\* Python's seq[:n].
FirstN(seq, n) ==
    IF Len(seq) <= n THEN seq ELSE SubSeq(seq, 1, n)

\* Python's seq[-n:].
LastN(seq, n) ==
    IF Len(seq) <= n THEN seq ELSE SubSeq(seq, Len(seq) - n + 1, Len(seq))

----------------------------------------------------------------------------
(* Log entries, tasks, proposals. *)

Msg(type, content) == [type |-> type, content |-> content]

Task(kind, arc, chapter) == [task |-> kind, arc_title |-> arc, chapter_number |-> chapter]

GenerateArcs == Task("generate_arcs", "None", 0)

GenerateChapters(arc) == Task("generate_chapters", arc, 0)

GenerateScenes(n) == Task("generate_scenes", "None", n)

Proposal(scene) == [original_scene_id |-> scene]

NoProposal == {}

NoScene == << >>

----------------------------------------------------------------------------
(* backend/agent/graph.py *)

\* A supervisor that returns a log of its trace entry alone.
supervisor_node_fresh_log(state) ==
    [state EXCEPT !.messages = <<Msg("system", "Supervisor processing status")>>]

\* supervisor_node: appends one trace entry, changes nothing else.
supervisor_node(state) ==
    [state EXCEPT !.messages =
        Append(@, Msg("system", "Supervisor processing status"))]

\* A routing function that sends an approved scene outline to the end.
route_without_scenes(state) ==
    LET status == IF state.system_status = NoStatus THEN INITIALIZING
                  ELSE state.system_status
    IN
    IF Contains(status, AWAITING_USER_APPROVAL) THEN "user_approval"
    ELSE IF status = AWAITING_USER_CLARIFICATION THEN "user_clarification"
    ELSE IF status = AWAITING_DEVIATION_APPROVAL THEN "deviation_review"
    ELSE IF status = INITIALIZING THEN "brainstormer"
    ELSE IF status = Approved("CONCEPT") THEN "character_smith"
    ELSE IF status \in {Approved("CHARACTERS"), Approved("ARCS"),
                        Approved("CHAPTERS")} THEN "architect"
    ELSE IF status \in {READY_FOR_WRITING, SCENE_COMPLETED} THEN "prose_weaver"
    ELSE "end"

\* A routing function that knows only the five statuses of the vocabulary.
route_exact_approval(state) ==
    LET status == state.system_status IN
    IF status \in {ApprovalFor(x) : x \in Levels} THEN "user_approval"
    ELSE IF status = AWAITING_USER_CLARIFICATION THEN "user_clarification"
    ELSE IF status = AWAITING_DEVIATION_APPROVAL THEN "deviation_review"
    ELSE IF status = INITIALIZING THEN "brainstormer"
    ELSE IF status = Approved("CONCEPT") THEN "character_smith"
    ELSE IF status \in {Approved("CHARACTERS"), Approved("ARCS"),
                        Approved("CHAPTERS"), Approved("SCENES")} THEN "architect"
    ELSE IF status \in {READY_FOR_WRITING, SCENE_COMPLETED} THEN "prose_weaver"
    ELSE "end"

\* route_from_supervisor: the value it returns.  A state without the key reads
\* as INITIALIZING: state.get("system_status", "INITIALIZING").
route_from_supervisor(state) ==
    LET status == IF state.system_status = NoStatus THEN INITIALIZING
                  ELSE state.system_status
    IN
    IF Contains(status, AWAITING_USER_APPROVAL) THEN "user_approval"
    ELSE IF status = AWAITING_USER_CLARIFICATION THEN "user_clarification"
    ELSE IF status = AWAITING_DEVIATION_APPROVAL THEN "deviation_review"
    ELSE IF status = INITIALIZING THEN "brainstormer"
    ELSE IF status = Approved("CONCEPT") THEN "character_smith"
    ELSE IF status = Approved("CHARACTERS") THEN "architect"
    ELSE IF status = Approved("ARCS") THEN "architect"
    ELSE IF status = Approved("CHAPTERS") \/ status = Approved("SCENES") THEN "architect"
    ELSE IF status = READY_FOR_WRITING \/ status = SCENE_COMPLETED THEN "prose_weaver"
    ELSE IF status = WRITING_COMPLETE THEN "end"
    ELSE IF status = ERROR THEN "end"
    ELSE "end"

\* route_from_supervisor: what it leaves in the dict it was called with
\* (state["task_queue"] = [{"task": "generate_arcs"}] on the CHARACTERS_APPROVED
\* branch, reached only when no earlier branch matched).
route_argument_after(state) ==
    IF /\ ~Contains(state.system_status, AWAITING_USER_APPROVAL)
       /\ state.system_status = Approved("CHARACTERS")
    THEN [state EXCEPT !.task_queue = <<GenerateArcs>>]
    ELSE state

\* The graph state after the conditional edge has run. route_from_supervisor is
\* an edge function: whether an assignment to its argument reaches the graph
\* state is decided by the graph runtime, which this repository does not
\* contain. shared = the argument is the live state; otherwise it is a dict
\* built for the call (LangGraph reads the channels afresh) and the assignment
\* is dropped with it.
state_after_route(state, shared) ==
    IF shared THEN route_argument_after(state) ELSE state

\* An approval node that starts the next level with an empty queue.
user_approval_clears_queue(state) ==
    LET status == state.system_status
        new_status ==
            IF Contains(status, <<"CONCEPT">>) THEN Approved("CONCEPT")
            ELSE IF Contains(status, <<"CHARACTERS">>) THEN Approved("CHARACTERS")
            ELSE IF Contains(status, <<"ARCS">>) THEN Approved("ARCS")
            ELSE IF Contains(status, <<"CHAPTERS">>) THEN Approved("CHAPTERS")
            ELSE IF Contains(status, <<"SCENES">>) THEN Approved("SCENES")
            ELSE APPROVED
    IN [state EXCEPT !.system_status = new_status,
                     !.task_queue = << >>,
                     !.messages = Append(@, Msg("user_approval", "User approved"))]

\* user_approval_node
user_approval_node(state) ==
    LET status == state.system_status
        new_status ==
            IF Contains(status, <<"CONCEPT">>) THEN Approved("CONCEPT")
            ELSE IF Contains(status, <<"CHARACTERS">>) THEN Approved("CHARACTERS")
            ELSE IF Contains(status, <<"ARCS">>) THEN Approved("ARCS")
            ELSE IF Contains(status, <<"CHAPTERS">>) THEN Approved("CHAPTERS")
            ELSE IF Contains(status, <<"SCENES">>) THEN Approved("SCENES")
            ELSE APPROVED
    IN [state EXCEPT !.system_status = new_status,
                     !.messages = Append(@, Msg("user_approval", "User approved"))]

\* tools/user_interaction.py: process_user_feedback
process_user_feedback(state, feedback) ==
    [state EXCEPT !.user_feedback = feedback,
                  !.agent_question = "None",
                  !.deviation_proposal = NoProposal,
                  !.system_status = PROCESSING_FEEDBACK,
                  !.messages = Append(@, Msg("user_feedback", feedback))]

\* A clarification node that clears the question and keeps the deviation.
user_clarification_keeps_deviation(state) ==
    [state EXCEPT !.user_feedback = "User provided clarification",
                  !.agent_question = "None",
                  !.system_status = PROCESSING_FEEDBACK,
                  !.messages = Append(@, Msg("user_feedback", "User provided clarification"))]

\* user_clarification_node
user_clarification_node(state) ==
    process_user_feedback(state, "User provided clarification")

\* A review node that approves without looking for the proposal.
deviation_review_unchecked(state) ==
    [state EXCEPT !.system_status = DEVIATION_APPROVED,
                  !.deviation_proposal = NoProposal,
                  !.messages = Append(@, Msg("deviation_approved", "Deviation approved"))]

\* deviation_review_node
deviation_review_node(state) ==
    IF state.deviation_proposal = NoProposal
    THEN [state EXCEPT !.system_status = ERROR,
                       !.messages = Append(@, Msg("error", "No deviation proposal found"))]
    ELSE [state EXCEPT !.system_status = DEVIATION_APPROVED,
                       !.deviation_proposal = NoProposal,
                       !.messages = Append(@, Msg("deviation_approved", "Deviation approved"))]

\* tools/user_interaction.py: ask_user_question
ask_user_question(state, question) ==
    [state EXCEPT !.system_status = AWAITING_USER_CLARIFICATION,
                  !.agent_question = question,
                  !.messages = Append(@, Msg("agent_question", question))]

\* A proposal that is put to the user as a question as well.
propose_with_question(state, scene_id) ==
    [state EXCEPT !.system_status = AWAITING_DEVIATION_APPROVAL,
                  !.deviation_proposal = {Proposal(scene_id)},
                  !.agent_question = "What additional details",
                  !.messages = Append(@, Msg("deviation_proposal", "deviation"))]

\* tools/user_interaction.py: propose_outline_deviation
propose_outline_deviation(state, scene_id) ==
    [state EXCEPT !.system_status = AWAITING_DEVIATION_APPROVAL,
                  !.deviation_proposal = {Proposal(scene_id)},
                  !.messages = Append(@, Msg("deviation_proposal", "deviation"))]

\* interrupt_before of get_compiled_graph
InterruptBefore == {"user_approval", "user_clarification", "deviation_review"}

----------------------------------------------------------------------------
(* backend/agent/tools/knowledge_graph.py: the nodes of the story.          *)
(* Nodes that agree on every property the agents read are kept once.        *)
(* A text is kept as its length in characters and the words and phrases of  *)
(* interest that occur in it, as written.                                    *)

Text(len, terms) == [len |-> len, terms |-> terms]

\* vague_terms of _needs_clarification
VagueTerms == {"mysterious", "unknown", "TBD", "to be determined", "unclear"}

\* str.lower() on the words and phrases texts are built from
Lower(w) ==
    CASE w = "Mysterious" -> "mysterious"
      [] w = "MYSTERIOUS" -> "mysterious"
      [] w = "Unknown" -> "unknown"
      [] w = "TBD" -> "tbd"
      [] w = "To Be Determined" -> "to be determined"
      [] w = "Unclear" -> "unclear"
      [] w = "Orphan" -> "orphan"
      [] OTHER -> w

\* `needle in text.lower()` for a lower-case needle
InLowered(needle, text) == \E w \in text.terms : Lower(w) = needle

Character(name, backstory, motivation) ==
    [name |-> name, backstory |-> backstory, motivation |-> motivation]

\* BrainstormerAgent._extract_characters
ProtagonistStub ==
    Character("Protagonist", Text(37, {"mysterious"}), Text(40, {}))

\* CharacterSmithAgent._parse_character_development
Developed(c) == Character(c.name, Text(157, {}), Text(110, {}))

\* A stub whose texts are short of a developed character and free of vague terms.
ClearStub == Character("Mentor", Text(30, {}), Text(25, {}))

\* ArchitectAgent._parse_arcs
ParsedArcs == <<"Act 1: Discovery", "Act 2: Trials", "Act 3: Resolution">>

\* ArchitectAgent._parse_chapters: three summaries, numbered 1..3 by enumerate
ParsedChapters == <<1, 2, 3>>

\* ArchitectAgent._parse_scenes: f"{chapter_number}.1" .. ".3"
ParsedScenes(chapter_number) ==
    <<<<chapter_number, 1>>, <<chapter_number, 2>>, <<chapter_number, 3>>>>

Range(seq) == {seq[i] : i \in 1..Len(seq)}

EmptyStore ==
    [story |-> 0, themes |-> 0, characters |-> {}, locations |-> 0,
     arcs |-> {}, chapters |-> {}, scenes |-> {}]

\* Neo4jTool.create_story_node
create_story_node(g) == [g EXCEPT !.story = @ + 1]

\* Neo4jTool.add_theme / add_character / add_location: MATCH (s:Story) CREATE,
\* one node for each Story node matched.
add_theme(g) == [g EXCEPT !.themes = @ + g.story]

add_character(g, c) ==
    IF g.story > 0 THEN [g EXCEPT !.characters = @ \cup {c}] ELSE g

add_location(g) == [g EXCEPT !.locations = @ + g.story]

\* Neo4jTool.add_arc
add_arc(g, title) ==
    IF g.story > 0 THEN [g EXCEPT !.arcs = @ \cup {title}] ELSE g

\* Neo4jTool.add_chapter: MATCH (a:Arc {arc_title}) CREATE (c:Chapter)-[:PART_OF]->(a)
add_chapter(g, arc_title, n) ==
    IF arc_title \in g.arcs
    THEN [g EXCEPT !.chapters = @ \cup {<<arc_title, n>>}]
    ELSE g

\* Neo4jTool.add_scene: MATCH (ch:Chapter {chapter_number}) CREATE (s:Scene),
\* one Scene under every Chapter that carries the number.
add_scene(g, n, scene_id) ==
    [g EXCEPT !.scenes = @ \cup
        {[arc |-> ch[1], chapter |-> n, scene_id |-> scene_id, status |-> "outlined"] :
            ch \in {c \in g.chapters : c[2] = n}}]

\* Neo4jTool.update_scene_prose: every Scene with the scene_id
update_scene_prose(g, scene_id) ==
    [g EXCEPT !.scenes =
        {IF s.scene_id = scene_id THEN [s EXCEPT !.status = "written"] ELSE s : s \in @}]

ScenePrecedes(a, b) == a[1] < b[1] \/ (a[1] = b[1] /\ a[2] < b[2])

\* Neo4jTool.get_scenes_with_status(story_id, "outlined"): the ids, ORDER BY scene_id
OutlinedIds(g) == {s.scene_id : s \in {x \in g.scenes : x.status = "outlined"}}

\* scenes_to_write[0]
FirstOutlined(g) ==
    CHOOSE a \in OutlinedIds(g) : \A b \in OutlinedIds(g) : a = b \/ ScenePrecedes(a, b)

\* CharacterSmithAgent._get_character_stubs
IsStub(c) == c.backstory.len < StubBackstoryLen

\* A heuristic that looks for the lower-cased terms in the texts as written.
_needs_clarification_case_sensitive(c) ==
    \/ \E term \in VagueTerms :
            Lower(term) \in c.backstory.terms \/ Lower(term) \in c.motivation.terms
    \/ c.backstory.len < MinBackstoryLen
    \/ c.motivation.len < MinMotivationLen

\* CharacterSmithAgent._needs_clarification
_needs_clarification(c) ==
    \/ \E term \in VagueTerms :
            InLowered(Lower(term), c.backstory) \/ InLowered(Lower(term), c.motivation)
    \/ c.backstory.len < MinBackstoryLen
    \/ c.motivation.len < MinMotivationLen

----------------------------------------------------------------------------
(* backend/agent/agents: each run(state) returns the state with its delta   *)
(* merged in (every key of AgentState is a last-value channel) and the      *)
(* store as it leaves it.  outcome is what the outside world does to the    *)
(* call: "ok", "llm_error" (llm.invoke raises), "store_error" (the first    *)
(* Neo4j query raises), and for the Prose stage "deviation" (the review     *)
(* text holds one of the revision phrases).                                 *)

Outcomes == {"ok", "llm_error", "store_error"}

ProseOutcomes == Outcomes \cup {"deviation"}

Result(state, g) == [state |-> state, kg |-> g]

\* except Exception as e: return {"system_status": "ERROR", "messages": ... + [error]}
ErrorDelta(state, content) ==
    [state EXCEPT !.system_status = ERROR,
                  !.messages = Append(@, Msg("error", content))]

AgentStep(state, status, content) ==
    [state EXCEPT !.system_status = status,
                  !.messages = Append(@, Msg("agent_step", content))]

\* A Concept stage that writes the themes and the character, no location.
brainstormer_without_location(state, g, outcome) ==
    IF outcome = "store_error" \/ g.story = 0 \/ outcome = "llm_error"
    THEN Result(ErrorDelta(state, "Brainstormer failed"), g)
    ELSE Result(AgentStep(state, ApprovalFor("CONCEPT"), "Generated core concept"),
                add_character(add_theme(add_theme(g)), ProtagonistStub))

\* BrainstormerAgent.run
brainstormer_run(state, g, outcome) ==
    IF outcome = "store_error" \/ g.story = 0 \/ outcome = "llm_error"
    THEN Result(ErrorDelta(state, "Brainstormer failed"), g)
    ELSE Result(AgentStep(state, ApprovalFor("CONCEPT"), "Generated core concept"),
                add_location(add_character(add_theme(add_theme(g)), ProtagonistStub)))

\* CharacterSmithAgent._generate_clarification_question
_generate_clarification_question(c) ==
    IF InLowered("mysterious", c.backstory) THEN "What specific mystery"
    ELSE IF c.backstory.len < MinBackstoryLen THEN "What is the background"
    ELSE IF c.motivation.len < MinMotivationLen THEN "What does the character want"
    ELSE "What additional details"

\* CharacterSmithAgent._update_character: MATCH (c:Character {name}) SET ...
_update_character(g, developed) ==
    [g EXCEPT !.characters =
        {IF c.name = developed.name THEN developed ELSE c : c \in @}]

\* for character in characters: ... of CharacterSmithAgent.run
RECURSIVE develop_characters(_, _, _, _)
develop_characters(state, g, order, llm_ok) ==
    IF IsEmpty(order)
    THEN Result(AgentStep(state, ApprovalFor("CHARACTERS"), "Developed characters"), g)
    ELSE IF _needs_clarification(Head(order))
    THEN Result(ask_user_question(state, _generate_clarification_question(Head(order))), g)
    ELSE develop_characters(
            state,
            IF llm_ok THEN _update_character(g, Developed(Head(order))) ELSE g,
            Tail(order), llm_ok)

\* The orders in which a query can return the nodes of a set.
Orders(S) == {seq \in [1..Cardinality(S) -> S] : Range(seq) = S}

\* CharacterSmithAgent.run, the stubs returned in the given order
character_smith_run(state, g, order, outcome) ==
    IF outcome = "store_error"
    THEN Result(ErrorDelta(state, "Character Smith failed"), g)
    ELSE IF IsEmpty(order)
    THEN Result(AgentStep(state, CHARACTER_DEVELOPMENT_COMPLETE,
                          "No characters need development"), g)
    ELSE develop_characters(state, g, order, outcome = "ok")

Stubs(g) == {c \in g.characters : IsStub(c)}

\* new_tasks of _generate_arcs
ChapterTasks(arcs) == [i \in 1..Len(arcs) |-> GenerateChapters(arcs[i])]

\* new_tasks of _generate_chapters
SceneTasks(chapters) == [i \in 1..Len(chapters) |-> GenerateScenes(i)]

RECURSIVE add_all_arcs(_, _)
add_all_arcs(g, arcs) ==
    IF IsEmpty(arcs) THEN g ELSE add_all_arcs(add_arc(g, Head(arcs)), Tail(arcs))

RECURSIVE add_all_chapters(_, _, _)
add_all_chapters(g, arc_title, chapters) ==
    IF IsEmpty(chapters) THEN g
    ELSE add_all_chapters(add_chapter(g, arc_title, Head(chapters)), arc_title, Tail(chapters))

RECURSIVE add_all_scenes(_, _, _)
add_all_scenes(g, n, scenes) ==
    IF IsEmpty(scenes) THEN g
    ELSE add_all_scenes(add_scene(g, n, Head(scenes)), n, Tail(scenes))

\* _generate_arcs with the processed task left at the head of the queue.
_generate_arcs_keep_head(state, g, outcome) ==
    IF outcome # "ok" \/ g.story = 0
    THEN Result(ErrorDelta(state, "Architect failed"), g)
    ELSE Result([AgentStep(state, ApprovalFor("ARCS"), "Generated story arcs")
                    EXCEPT !.task_queue = state.task_queue \o ChapterTasks(ParsedArcs)],
                add_all_arcs(g, ParsedArcs))

\* ArchitectAgent._generate_arcs (add_arc indexes result[0]: it raises when no
\* Story node matches)
_generate_arcs(state, g, outcome) ==
    IF outcome # "ok" \/ g.story = 0
    THEN Result(ErrorDelta(state, "Architect failed"), g)
    ELSE Result([AgentStep(state, ApprovalFor("ARCS"), "Generated story arcs")
                    EXCEPT !.task_queue = Rest(state.task_queue) \o ChapterTasks(ParsedArcs)],
                add_all_arcs(g, ParsedArcs))

\* _generate_chapters with the tasks of the new chapters put ahead of the queue.
_generate_chapters_depth_first(state, g, arc_title, outcome) ==
    IF outcome # "ok" \/ arc_title \notin g.arcs
    THEN Result(ErrorDelta(state, "Architect failed"), g)
    ELSE LET KeepTask(task) == task.arc_title # arc_title
             remaining_tasks == SelectSeq(Rest(state.task_queue), KeepTask)
         IN Result([AgentStep(state, ApprovalFor("CHAPTERS"), "Generated chapters")
                       EXCEPT !.task_queue = SceneTasks(ParsedChapters) \o remaining_tasks],
                   add_all_chapters(g, arc_title, ParsedChapters))

\* _generate_chapters that keeps every task behind the head.
_generate_chapters_keep_arc(state, g, arc_title, outcome) ==
    IF outcome # "ok" \/ arc_title \notin g.arcs
    THEN Result(ErrorDelta(state, "Architect failed"), g)
    ELSE Result([AgentStep(state, ApprovalFor("CHAPTERS"), "Generated chapters")
                    EXCEPT !.task_queue = Rest(state.task_queue) \o SceneTasks(ParsedChapters)],
                add_all_chapters(g, arc_title, ParsedChapters))

\* ArchitectAgent._generate_chapters
_generate_chapters(state, g, arc_title, outcome) ==
    IF outcome = "store_error"
    THEN Result(ErrorDelta(state, "Architect failed"), g)
    ELSE IF arc_title \notin g.arcs
    THEN Result(ErrorDelta(state, "Arc not found"), g)
    ELSE IF outcome = "llm_error"
    THEN Result(ErrorDelta(state, "Architect failed"), g)
    ELSE LET KeepTask(task) == task.arc_title # arc_title
             remaining_tasks == SelectSeq(Rest(state.task_queue), KeepTask)
         IN Result([AgentStep(state, ApprovalFor("CHAPTERS"), "Generated chapters")
                       EXCEPT !.task_queue = remaining_tasks \o SceneTasks(ParsedChapters)],
                   add_all_chapters(g, arc_title, ParsedChapters))

\* _generate_scenes that opens the writing after every chapter.
_generate_scenes_always_ready(state, g, chapter_number, outcome) ==
    IF outcome # "ok" \/ ~\E ch \in g.chapters : ch[2] = chapter_number
    THEN Result(ErrorDelta(state, "Architect failed"), g)
    ELSE Result([AgentStep(state, READY_FOR_WRITING, "Generated scenes")
                    EXCEPT !.task_queue = Rest(state.task_queue)],
                add_all_scenes(g, chapter_number, ParsedScenes(chapter_number)))

\* ArchitectAgent._generate_scenes
_generate_scenes(state, g, chapter_number, outcome) ==
    IF outcome = "store_error"
    THEN Result(ErrorDelta(state, "Architect failed"), g)
    ELSE IF ~\E ch \in g.chapters : ch[2] = chapter_number
    THEN Result(ErrorDelta(state, "Chapter not found"), g)
    ELSE IF outcome = "llm_error"
    THEN Result(ErrorDelta(state, "Architect failed"), g)
    ELSE LET IsSceneTask(task) == task.task = "generate_scenes"
             status == IF IsEmpty(SelectSeq(Rest(state.task_queue), IsSceneTask))
                       THEN READY_FOR_WRITING
                       ELSE ApprovalFor("SCENES")
         IN Result([AgentStep(state, status, "Generated scenes")
                       EXCEPT !.task_queue = Rest(state.task_queue)],
                   add_all_scenes(g, chapter_number, ParsedScenes(chapter_number)))

\* ArchitectAgent.run with a head task of unknown kind taken off the queue.
architect_run_skip_unknown(state, g, outcome) ==
    IF IsEmpty(state.task_queue)
    THEN Result(ErrorDelta(state, "No architect tasks in queue"), g)
    ELSE LET current_task == Head(state.task_queue) IN
         IF current_task.task = "generate_arcs"
         THEN _generate_arcs(state, g, outcome)
         ELSE IF current_task.task = "generate_chapters"
         THEN _generate_chapters(state, g, current_task.arc_title, outcome)
         ELSE IF current_task.task = "generate_scenes"
         THEN _generate_scenes(state, g, current_task.chapter_number, outcome)
         ELSE Result([ErrorDelta(state, "Unknown architect task")
                        EXCEPT !.task_queue = Rest(state.task_queue)], g)

\* ArchitectAgent.run
architect_run(state, g, outcome) ==
    IF IsEmpty(state.task_queue)
    THEN Result(ErrorDelta(state, "No architect tasks in queue"), g)
    ELSE LET current_task == Head(state.task_queue) IN
         IF current_task.task = "generate_arcs"
         THEN _generate_arcs(state, g, outcome)
         ELSE IF current_task.task = "generate_chapters"
         THEN _generate_chapters(state, g, current_task.arc_title, outcome)
         ELSE IF current_task.task = "generate_scenes"
         THEN _generate_scenes(state, g, current_task.chapter_number, outcome)
         ELSE Result(ErrorDelta(state, "Unknown architect task"), g)

\* write_scene that picks the next scene before it saves the one in hand.
write_scene_stale_cursor(state, g, current_scene_id, outcome) ==
    IF outcome \in {"store_error", "llm_error"}
    THEN Result(ErrorDelta(state, "Prose Weaver failed"), g)
    ELSE IF outcome = "deviation"
    THEN Result(propose_outline_deviation(state, current_scene_id), g)
    ELSE LET g2 == update_scene_prose(g, current_scene_id)
             next_scene_id == IF OutlinedIds(g) = {} THEN NoScene ELSE FirstOutlined(g)
         IN Result([AgentStep(state,
                              IF next_scene_id = NoScene THEN WRITING_COMPLETE
                                                         ELSE SCENE_COMPLETED,
                              "Completed scene")
                       EXCEPT !.current_scene_id = next_scene_id],
                   g2)

\* write_scene that saves the scene before it proposes the deviation.
write_scene_saves_draft(state, g, current_scene_id, outcome) ==
    IF outcome \in {"store_error", "llm_error"}
    THEN Result(ErrorDelta(state, "Prose Weaver failed"), g)
    ELSE IF outcome = "deviation"
    THEN Result(propose_outline_deviation(state, current_scene_id),
                update_scene_prose(g, current_scene_id))
    ELSE LET g2 == update_scene_prose(g, current_scene_id)
             next_scene_id == IF OutlinedIds(g2) = {} THEN NoScene ELSE FirstOutlined(g2)
         IN Result([AgentStep(state,
                              IF next_scene_id = NoScene THEN WRITING_COMPLETE
                                                         ELSE SCENE_COMPLETED,
                              "Completed scene")
                       EXCEPT !.current_scene_id = next_scene_id],
                   g2)

\* ProseWeaverAgent.run from the point where current_scene_id is known
write_scene(state, g, current_scene_id, outcome) ==
    IF outcome \in {"store_error", "llm_error"}
    THEN Result(ErrorDelta(state, "Prose Weaver failed"), g)
    ELSE IF outcome = "deviation"
    THEN Result(propose_outline_deviation(state, current_scene_id), g)
    ELSE LET g2 == update_scene_prose(g, current_scene_id)
             next_scene_id == IF OutlinedIds(g2) = {} THEN NoScene ELSE FirstOutlined(g2)
         IN Result([AgentStep(state,
                              IF next_scene_id = NoScene THEN WRITING_COMPLETE
                                                         ELSE SCENE_COMPLETED,
                              "Completed scene")
                       EXCEPT !.current_scene_id = next_scene_id],
                   g2)

\* ProseWeaverAgent.run
prose_weaver_run(state, g, outcome) ==
    IF state.current_scene_id = NoScene
    THEN IF outcome = "store_error"
         THEN Result(ErrorDelta(state, "Prose Weaver failed"), g)
         ELSE IF OutlinedIds(g) = {}
         THEN Result([state EXCEPT
                        !.system_status = WRITING_COMPLETE,
                        !.messages = Append(@, Msg("system", "All scenes have been written!"))],
                     g)
         ELSE write_scene(state, g, FirstOutlined(g), outcome)
    ELSE write_scene(state, g, state.current_scene_id, outcome)

----------------------------------------------------------------------------
(* The story_sessions row (backend/app/db/supabase_handler.py) and the      *)
(* control_state dicts the endpoints and the driver write into it.  A key   *)
(* that is absent and a key that holds None read the same through .get(),   *)
(* so both are the field's None value.  working_document is None in every   *)
(* state and is left out.                                                   *)

ControlState(status, queue) ==
    [system_status |-> status, agent_question |-> "None",
     deviation_proposal |-> NoProposal, user_feedback |-> "None",
     task_queue |-> queue, current_scene_id |-> NoScene,
     messages |-> << >>, error_message |-> "None"]

\* control_state = {} (the default of story_data.get("control_state", {}))
EmptyControlState == ControlState(NoStatus, << >>)

NoRow == [row |-> FALSE, cs |-> EmptyControlState]

Row(cs) == [row |-> TRUE, cs |-> cs]

\* initial_control_state of create_story
initial_control_state == ControlState(INITIALIZING, << >>)

\* SupabaseHandler.update_story_control_state: False when no row matches, an
\* exception when the request fails (ok = FALSE)
update_story_control_state(d, cs, ok) ==
    IF ok /\ d.row THEN Row(cs) ELSE d

\* A control_state dict that leaves the task_queue key out.
control_state_without_queue(state) ==
    [system_status |-> state.system_status,
     agent_question |-> state.agent_question,
     deviation_proposal |-> state.deviation_proposal,
     user_feedback |-> state.user_feedback,
     task_queue |-> << >>,
     current_scene_id |-> state.current_scene_id,
     messages |-> LastN(state.messages, LogWindow),
     error_message |-> "None"]

\* The control_state dict built by _update_story_state.
control_state_of(state) ==
    [system_status |-> state.system_status,
     agent_question |-> state.agent_question,
     deviation_proposal |-> state.deviation_proposal,
     user_feedback |-> state.user_feedback,
     task_queue |-> state.task_queue,
     current_scene_id |-> state.current_scene_id,
     messages |-> LastN(state.messages, LogWindow),
     error_message |-> "None"]

\* _update_story_state: the exception of a failed update is swallowed
_update_story_state(d, state, ok) ==
    update_story_control_state(d, control_state_of(state), ok)

\* error_state of _run_story_generation_async
error_state ==
    [ControlState(ERROR, << >>) EXCEPT !.error_message = "exception"]

\* initialize_story_workflow: the AgentState it returns
initial_agent_state ==
    [system_status |-> INITIALIZING, agent_question |-> "None",
     deviation_proposal |-> NoProposal, user_feedback |-> "None",
     task_queue |-> << >>, current_scene_id |-> NoScene,
     messages |-> <<Msg("system", "Initialized story workflow")>>]

\* agent_state of the resume branch of _run_story_generation_async
resumed_agent_state(cs) ==
    [system_status |-> IF cs.system_status = NoStatus THEN READY ELSE cs.system_status,
     agent_question |-> cs.agent_question,
     deviation_proposal |-> cs.deviation_proposal,
     user_feedback |-> cs.user_feedback,
     task_queue |-> cs.task_queue,
     current_scene_id |-> cs.current_scene_id,
     messages |-> cs.messages]

\* if control_state.get("system_status") == "INITIALIZING"
is_first_run(cs) == cs.system_status = INITIALIZING

\* The AgentState the driver starts the graph with.
loaded_agent_state(cs) ==
    IF is_first_run(cs) THEN initial_agent_state ELSE resumed_agent_state(cs)

\* The dispatch the graph makes from a state: supervisor, then the edge.
Dispatch(state, shared) ==
    LET s == state_after_route(supervisor_node(state), shared)
    IN [target |-> route_from_supervisor(supervisor_node(state)),
        head |-> IF IsEmpty(s.task_queue) THEN << >> ELSE <<Head(s.task_queue)>>]

----------------------------------------------------------------------------
(* Inputs. *)

ArcOne == ParsedArcs[1]

\* The stores the stages leave behind, one per stage of the pipeline.
KGStory == create_story_node(EmptyStore)

KGConcept == brainstormer_run(initial_agent_state, KGStory, "ok").kg

KGClear == [KGConcept EXCEPT !.characters = {ClearStub}]

KGMixed == [KGConcept EXCEPT !.characters = {ClearStub, ProtagonistStub}]

KGDeveloped == [KGConcept EXCEPT !.characters = {Developed(ProtagonistStub)}]

KGArcs == add_all_arcs(KGDeveloped, ParsedArcs)

KGChapters == add_all_chapters(KGArcs, ArcOne, ParsedChapters)

KGScenes == add_all_scenes(KGChapters, 1, ParsedScenes(1))

\* The store after the Prose stage has written the first scene.
KGWritten == update_scene_prose(KGScenes, <<1, 1>>)

\* The store with one scene left to write.
KGLast == update_scene_prose(KGWritten, <<1, 2>>)

\* The tasks queues are drawn from: the three kinds the Structure stage knows,
\* for two arcs and two chapters, and one it does not know.
InputTasks ==
    {GenerateArcs, GenerateChapters(ArcOne), GenerateChapters(ParsedArcs[2]),
     GenerateScenes(1), GenerateScenes(2), Task("review", "None", 0)}

InputQueues ==
    UNION {[1..n -> InputTasks] : n \in 0..MaxQueueLen}

\* The queues a persisted control_state starts with.
InitQueues == {q \in InputQueues : Len(q) <= 1}

\* The persisted statuses a run is started on: the vocabulary, and no status.
InitStatuses == Vocabulary \cup {NoStatus}

StructureStatuses ==
    {Approved("CHARACTERS"), Approved("ARCS"), Approved("CHAPTERS"), Approved("SCENES")}

\* The rows and stores a behaviour starts from: every status beside the store
\* the Concept stage leaves; the statuses of each stage beside the stores and
\* queues that stage reads.
InitRows ==
    {[cs |-> ControlState(st, << >>), kg |-> KGConcept] : st \in InitStatuses}
    \cup {[cs |-> ControlState(INITIALIZING, << >>), kg |-> g] :
            g \in {EmptyStore, KGStory}}
    \cup {[cs |-> ControlState(Approved("CONCEPT"), << >>), kg |-> g] :
            g \in {KGClear, KGMixed, KGDeveloped}}
    \cup {[cs |-> ControlState(st, q), kg |-> g] :
            st \in StructureStatuses, q \in InitQueues,
            g \in {KGDeveloped, KGArcs, KGChapters}}
    \cup {[cs |-> ControlState(st, << >>), kg |-> g] :
            st \in {READY_FOR_WRITING, SCENE_COMPLETED}, g \in {KGChapters, KGScenes}}

\* The websockets the clients of the story open, one handler coroutine each.
Sockets == 1..MaxSockets

\* The key of the story in active_connections and of its channel.
story_id == "story"

\* WebSocketManager.__init__, and no websocket opened yet
InitManager ==
    /\ active_connections = [s \in {} |-> {}]
    /\ subscribed = {}
    /\ handler = [w \in Sockets |-> "new"]

NoHistory ==
    [interacts |-> 0, submits |-> 0, fb_from |-> NoStatus, fb_effect |-> FALSE,
     in_run |-> FALSE, loaded |-> EmptyControlState, initialized |-> FALSE,
     stages |-> << >>, failed |-> FALSE, fresh |-> FALSE, runs |-> 0,
     result |-> "none", end_status |-> NoStatus, snap |-> {},
     stage_from |-> NoStatus, stage_head |-> << >>,
     broker |-> "up", expect |-> {}]

\* No node function has been applied on its own.
NoFn ==
    [name |-> "none", arg |-> initial_agent_state, kg |-> EmptyStore,
     outcome |-> "none", target |-> "none", character |-> ClearStub, flag |-> FALSE]

Init ==
    /\ \/ db = NoRow /\ kg = EmptyStore
       \/ \E r \in InitRows : db = Row(r.cs) /\ kg = r.kg
    /\ edge_shared \in BOOLEAN
    /\ pending = 0
    /\ pc = "idle"
    /\ retries = 0
    /\ agent_state = initial_agent_state
    /\ next_node = "supervisor"
    /\ step_count = 0
    /\ final_state = {}
    /\ hist = NoHistory
    /\ fn = NoFn
    /\ parked = << >>
    /\ InitManager

----------------------------------------------------------------------------
(* backend/app/api/endpoints/stories.py *)

run_vars == <<pc, retries, agent_state, next_node, step_count, final_state>>

\* create_story: insert the row, then run_story_generation_task.delay()
create_story ==
    /\ ~db.row
    /\ db' = Row(initial_control_state)
    /\ pending' = pending + 1
    /\ hist' = [hist EXCEPT !.fresh = TRUE]
    /\ UNCHANGED <<kg, run_vars, edge_shared, fn, parked, manager_vars>>

\* interact_with_story: 404 without a row; otherwise the feedback and
\* PROCESSING_FEEDBACK are written and the task is queued
interact_with_story ==
    /\ hist.interacts < MaxInteract
    /\ db.row
    /\ db' = Row([db.cs EXCEPT !.user_feedback = "feedback",
                               !.system_status = PROCESSING_FEEDBACK])
    /\ pending' = pending + 1
    /\ hist' = [hist EXCEPT !.interacts = @ + 1,
                            !.fb_from = db.cs.system_status,
                            !.fb_effect = (db' # db) \/ (pending' # pending)]
    /\ UNCHANGED <<kg, run_vars, edge_shared, fn, parked, manager_vars>>

\* start_or_resume from outside the endpoints: run_story_generation_task.delay(story_id).
\* With one worker a message queued during a run waits for the run to end, so
\* the message is queued when the worker is idle.

submit_task ==
    /\ hist.submits < MaxSubmit
    /\ db.row
    /\ pc = "idle"
    /\ pending = 0
    /\ pending' = pending + 1
    /\ hist' = [hist EXCEPT !.submits = @ + 1]
    /\ UNCHANGED <<db, kg, run_vars, edge_shared, fn, parked, manager_vars>>

----------------------------------------------------------------------------
(* backend/app/services/story_runner.py *)

HeadOrNone(queue) == IF IsEmpty(queue) THEN << >> ELSE <<Head(queue)>>

\* What the graph dispatches next when it goes on from `state` with `node` due.
NextDispatch(state, node, shared) ==
    IF node = "supervisor" THEN Dispatch(state, shared)
    ELSE [target |-> node, head |-> HeadOrNone(state.task_queue)]

\* A worker takes the task message off the queue; the locals of the invocation
\* are fresh.
task_start ==
    /\ pc = "idle"
    /\ pending > 0
    /\ pending' = pending - 1
    /\ pc' = "load"
    /\ retries' = 0
    /\ agent_state' = initial_agent_state
    /\ next_node' = "supervisor"
    /\ step_count' = 0
    /\ final_state' = {}
    /\ hist' = [hist EXCEPT !.runs = @ + 1, !.failed = FALSE, !.result = "none",
                            !.stages = << >>, !.initialized = FALSE,
                            !.loaded = EmptyControlState, !.end_status = NoStatus,
                            !.snap = {}, !.stage_from = NoStatus,
                            !.stage_head = << >>, !.expect = {}]
    /\ UNCHANGED <<db, kg, edge_shared, fn, parked, manager_vars>>

\* The except branches with a retry whatever self.request.retries is.
RaiseAlwaysRetry(persist_ok, h) ==
    /\ db' = update_story_control_state(db, error_state, persist_ok)
    /\ agent_state' = initial_agent_state
    /\ next_node' = "supervisor"
    /\ step_count' = 0
    /\ final_state' = {}
    /\ pc' = "load"
    /\ retries' = retries + 1
    /\ hist' = [h EXCEPT !.failed = TRUE, !.result = "retry", !.in_run = FALSE,
                         !.end_status = db'.cs.system_status]

\* except Exception of _run_story_generation_async (the error status is written,
\* a failure of that write is swallowed, the exception is raised again) and
\* except Exception of run_story_generation_task (retry while
\* self.request.retries < self.max_retries, else return "failed").  The locals
\* of the invocation end with it.
Raise(persist_ok, h) ==
    /\ db' = update_story_control_state(db, error_state, persist_ok)
    /\ agent_state' = initial_agent_state
    /\ next_node' = "supervisor"
    /\ step_count' = 0
    /\ final_state' = {}
    /\ IF retries < max_retries
       THEN /\ pc' = "load"
            /\ retries' = retries + 1
            /\ hist' = [h EXCEPT !.failed = TRUE, !.result = "retry", !.in_run = FALSE,
                                 !.end_status = db'.cs.system_status]
       ELSE /\ pc' = "idle"
            /\ retries' = 0
            /\ hist' = [h EXCEPT !.failed = TRUE, !.result = "failed", !.in_run = FALSE,
                                 !.end_status = db'.cs.system_status]

\* _run_story_generation_async up to graph.astream: the row is read, the
\* AgentState is initialized or resumed, the graph is compiled.  infra_ok =
\* FALSE: one of these calls raises.
load_story ==
    /\ pc = "load"
    /\ \E infra_ok, persist_ok \in BOOLEAN :
        IF db.row /\ infra_ok
        THEN /\ kg' = IF is_first_run(db.cs) THEN create_story_node(kg) ELSE kg
             /\ agent_state' = loaded_agent_state(db.cs)
             /\ pc' = "stream"
             /\ next_node' = "supervisor"
             /\ step_count' = 0
             /\ final_state' = {}
             /\ hist' = [hist EXCEPT !.in_run = TRUE, !.loaded = db.cs,
                                     !.initialized = is_first_run(db.cs),
                                     !.stages = << >>]
             /\ UNCHANGED <<db, retries>>
        ELSE /\ Raise(persist_ok, hist)
             /\ UNCHANGED kg
    /\ UNCHANGED <<pending, edge_shared, fn, parked, manager_vars>>

\* The body of `async for state in graph.astream(...)` for the state the graph
\* yields after a node has run; `node` is what the graph runs next.
Yielded(state, node, persist_ok, h) ==
    LET due == (step_count + 1) % PersistEvery = 0 IN
    /\ agent_state' = state
    /\ step_count' = step_count + 1
    /\ db' = IF due THEN _update_story_state(db, state, persist_ok) ELSE db
    /\ final_state' = {state}
    /\ pc' = IF Contains(state.system_status, AWAITING) THEN "final" ELSE "stream"
    /\ next_node' = node
    /\ hist' = [h EXCEPT
                  !.failed = @ \/ (due /\ ~persist_ok),
                  !.snap = IF due /\ persist_ok /\ db.row
                           THEN {[cs |-> db'.cs,
                                  next |-> NextDispatch(state, node, edge_shared)]}
                           ELSE @]
    /\ UNCHANGED <<pending, retries, edge_shared, fn, parked, manager_vars>>

\* RedisStreamCallbackHandler._publish_message with a publish that succeeds
\* (ok) or raises; here the exception goes on to the caller.
_publish_message_propagating(ok) == [published |-> ok, raised |-> ~ok]

\* RedisStreamCallbackHandler._publish_message: except Exception logs the error.
_publish_message(ok) == [published |-> ok, raised |-> FALSE]

\* What redis_client.publish can do: it succeeds while the broker is up.
PublishResults == IF hist.broker = "up" THEN {TRUE} ELSE BOOLEAN

\* A node has run with the callback handler of the run publishing its events,
\* and the graph yields `state`.  An exception of a callback ends the attempt.
\* expect: for a publish that failed, the state and the row of the step had
\* the publish succeeded.
Stepped(state, node, persist_ok, publish_ok, h) ==
    LET due == (step_count + 1) % PersistEvery = 0
        expected == [state |-> state,
                     db |-> IF due THEN _update_story_state(db, state, persist_ok)
                                   ELSE db]
        h2 == [h EXCEPT !.expect = IF publish_ok THEN {} ELSE {expected}]
    IN IF _publish_message(publish_ok).raised
       THEN /\ Raise(persist_ok, h2)
            /\ UNCHANGED <<pending, edge_shared, fn, parked, manager_vars>>
       ELSE Yielded(state, node, persist_ok, h2)

\* The history after a stage has been invoked on agent_state.
Staged(h, stage, stage_failed) ==
    [h EXCEPT !.stages = Append(@, stage), !.failed = @ \/ stage_failed,
              !.stage_from = agent_state.system_status,
              !.stage_head = HeadOrNone(agent_state.task_queue)]

\* supervisor node and its conditional edge
supervisor_step ==
    /\ pc = "stream"
    /\ next_node = "supervisor"
    /\ \E persist_ok \in BOOLEAN, publish_ok \in PublishResults :
        Stepped(state_after_route(supervisor_node(agent_state), edge_shared),
                route_from_supervisor(supervisor_node(agent_state)),
                persist_ok, publish_ok, hist)
    /\ UNCHANGED kg

brainstormer_step ==
    /\ pc = "stream"
    /\ next_node = "brainstormer"
    /\ \E outcome \in Outcomes, persist_ok \in BOOLEAN, publish_ok \in PublishResults :
        LET r == brainstormer_run(agent_state, kg, outcome) IN
        /\ kg' = r.kg
        /\ Stepped(r.state, "supervisor", persist_ok, publish_ok,
                   Staged(hist, "brainstormer", outcome # "ok"))

character_smith_step ==
    /\ pc = "stream"
    /\ next_node = "character_smith"
    /\ \E outcome \in Outcomes, persist_ok \in BOOLEAN, publish_ok \in PublishResults,
          order \in Orders(Stubs(kg)) :
        LET r == character_smith_run(agent_state, kg, order, outcome) IN
        /\ kg' = r.kg
        /\ Stepped(r.state, "supervisor", persist_ok, publish_ok,
                   Staged(hist, "character_smith", outcome # "ok"))

architect_step ==
    /\ pc = "stream"
    /\ next_node = "architect"
    /\ \E outcome \in Outcomes, persist_ok \in BOOLEAN, publish_ok \in PublishResults :
        LET r == architect_run(agent_state, kg, outcome) IN
        /\ kg' = r.kg
        /\ Stepped(r.state, "supervisor", persist_ok, publish_ok,
                   Staged(hist, "architect", outcome # "ok"))

prose_weaver_step ==
    /\ pc = "stream"
    /\ next_node = "prose_weaver"
    /\ \E outcome \in ProseOutcomes, persist_ok \in BOOLEAN, publish_ok \in PublishResults :
        LET r == prose_weaver_run(agent_state, kg, outcome) IN
        /\ kg' = r.kg
        /\ Stepped(r.state, "supervisor", persist_ok, publish_ok,
                   Staged(hist, "prose_weaver", outcome \in {"llm_error", "store_error"}))

\* The stream is exhausted: the edge led to END, or to a node of interrupt_before.
stream_end ==
    /\ pc = "stream"
    /\ next_node \in InterruptBefore \cup {"end"}
    /\ pc' = "final"
    /\ UNCHANGED <<db, kg, pending, retries, agent_state, next_node, step_count,
                   final_state, edge_shared, hist, fn, parked, manager_vars>>

\* After the loop: the final state update, the timestamp, return "completed".
final_persist ==
    /\ pc = "final"
    /\ \E persist_ok \in BOOLEAN :
        /\ db' = IF final_state # {}
                 THEN _update_story_state(db, CHOOSE s \in final_state : TRUE, persist_ok)
                 ELSE db
        /\ hist' = [hist EXCEPT
                      !.failed = @ \/ ~persist_ok,
                      !.result = "completed",
                      !.in_run = FALSE,
                      !.end_status = db'.cs.system_status,
                      !.snap = IF final_state # {} /\ persist_ok /\ db.row
                               THEN {[cs |-> db'.cs,
                                      next |-> NextDispatch(agent_state, next_node,
                                                            edge_shared)]}
                               ELSE @]
    /\ pc' = "idle"
    /\ retries' = 0
    /\ agent_state' = initial_agent_state
    /\ next_node' = "supervisor"
    /\ step_count' = 0
    /\ final_state' = {}
    /\ UNCHANGED <<kg, pending, edge_shared, fn, parked, manager_vars>>

\* An exception inside the try block once the graph is running (raised by the
\* stream or by a callback).  The model raises it in the first attempt of a
\* task; a retry either fails to load or runs through.
driver_exception ==
    /\ pc \in {"stream", "final"}
    /\ retries = 0
    /\ \E persist_ok \in BOOLEAN : Raise(persist_ok, hist)
    /\ UNCHANGED <<kg, pending, edge_shared, fn, parked, manager_vars>>

Next ==
    \/ create_story
    \/ interact_with_story
    \/ submit_task
    \/ task_start
    \/ load_story
    \/ supervisor_step
    \/ brainstormer_step
    \/ character_smith_step
    \/ architect_step
    \/ prose_weaver_step
    \/ stream_end
    \/ final_persist
    \/ driver_exception

Spec == Init /\ [][Next]_vars

----------------------------------------------------------------------------
(* The worker pool.  celery_app sets no concurrency and the task takes no   *)
(* lock on the story: every process of the pool executes                    *)
(* run_story_generation_task with locals of its own, on the shared row,     *)
(* store and message queue.  pc .. final_state are the locals of the        *)
(* process in view; parked holds those of the other processes.              *)

\* The locals of a process.
Locals(p, r, state, node, steps, final) ==
    [pc |-> p, retries |-> r, agent_state |-> state, next_node |-> node,
     step_count |-> steps, final_state |-> final]

\* A process that executes no task.
IdleWorker == Locals("idle", 0, initial_agent_state, "supervisor", 0, {})

\* The rows one stage each starts from, beside no row.
WorkerRows ==
    {[cs |-> ControlState(INITIALIZING, << >>), kg |-> KGStory],
     [cs |-> ControlState(Approved("CONCEPT"), << >>), kg |-> KGClear],
     [cs |-> ControlState(Approved("ARCS"), <<GenerateChapters(ArcOne)>>), kg |-> KGArcs],
     [cs |-> ControlState(READY_FOR_WRITING, << >>), kg |-> KGScenes]}

InitWorkers ==
    /\ \/ db = NoRow /\ kg = EmptyStore
       \/ \E r \in WorkerRows : db = Row(r.cs) /\ kg = r.kg
    /\ edge_shared = FALSE
    /\ pending = 0
    /\ pc = "idle"
    /\ retries = 0
    /\ agent_state = initial_agent_state
    /\ next_node = "supervisor"
    /\ step_count = 0
    /\ final_state = {}
    /\ hist = NoHistory
    /\ fn = NoFn
    /\ \E n \in 0..(MaxWorkers - 1) : parked = [i \in 1..n |-> IdleWorker]
    /\ InitManager

\* Another process of the pool comes into view: it has a task in hand, or a
\* message is waiting for it.
worker_switch ==
    /\ \E i \in 1..Len(parked) :
        /\ parked[i].pc # "idle" \/ pending > 0
        /\ pc' = parked[i].pc
        /\ retries' = parked[i].retries
        /\ agent_state' = parked[i].agent_state
        /\ next_node' = parked[i].next_node
        /\ step_count' = parked[i].step_count
        /\ final_state' = parked[i].final_state
        /\ parked' = [parked EXCEPT ![i] =
                        Locals(pc, retries, agent_state, next_node, step_count,
                               final_state)]
    /\ UNCHANGED <<db, kg, pending, edge_shared, hist, fn, manager_vars>>

NextWorkers ==
    \/ Next
    \/ worker_switch

SpecWorkers == InitWorkers /\ [][NextWorkers]_vars

----------------------------------------------------------------------------
(* The driver with a broker that can be down: under Spec every publish of   *)
(* the callback handler succeeds, here each one succeeds or fails.          *)

InitPublish ==
    /\ \/ db = NoRow /\ kg = EmptyStore
       \/ \E r \in WorkerRows : db = Row(r.cs) /\ kg = r.kg
    /\ edge_shared = FALSE
    /\ pending = 0
    /\ pc = "idle"
    /\ retries = 0
    /\ agent_state = initial_agent_state
    /\ next_node = "supervisor"
    /\ step_count = 0
    /\ final_state = {}
    /\ \E b \in {"up", "down"} : hist = [NoHistory EXCEPT !.broker = b]
    /\ fn = NoFn
    /\ parked = << >>
    /\ InitManager

SpecPublish == InitPublish /\ [][Next]_vars

----------------------------------------------------------------------------
(* backend/app/websocket/manager.py: the handle_websocket_communication     *)
(* coroutines of the websockets opened on the story.  They run on the event *)
(* loop of the API process: an action is the code a coroutine executes from *)
(* one await to the next.  pubsub.subscribe and pubsub.unsubscribe take     *)
(* effect on the channel in the order they are called.                      *)

\* connect: await websocket.accept()
connect_accept ==
    /\ \E w \in Sockets :
        /\ handler[w] = "new"
        /\ handler' = [handler EXCEPT ![w] = "accepted"]
    /\ UNCHANGED <<active_connections, subscribed,
                   db, kg, pending, run_vars, edge_shared, hist, fn, parked>>

\* connect: if story_id not in self.active_connections: the entry is made and
\* the coroutine awaits pubsub.subscribe; otherwise the websocket is added and
\* the coroutine awaits websocket.send_text
connect_register ==
    /\ \E w \in Sockets :
        /\ handler[w] = "accepted"
        /\ IF story_id \notin DOMAIN active_connections
           THEN /\ active_connections' =
                    [s \in DOMAIN active_connections \cup {story_id} |->
                        IF s = story_id THEN {} ELSE active_connections[s]]
                /\ subscribed' = subscribed \cup {story_id}
                /\ handler' = [handler EXCEPT ![w] = "subscribing"]
           ELSE /\ active_connections' =
                    [active_connections EXCEPT ![story_id] = @ \cup {w}]
                /\ subscribed' = subscribed
                /\ handler' = [handler EXCEPT ![w] = "sending"]
    /\ UNCHANGED <<db, kg, pending, run_vars, edge_shared, hist, fn, parked>>

\* connect: pubsub.subscribe has returned; self.active_connections[story_id].add
\* raises KeyError when the entry is gone, and connect raises it again
connect_subscribed ==
    /\ \E w \in Sockets :
        /\ handler[w] = "subscribing"
        /\ IF story_id \in DOMAIN active_connections
           THEN /\ active_connections' =
                    [active_connections EXCEPT ![story_id] = @ \cup {w}]
                /\ handler' = [handler EXCEPT ![w] = "sending"]
           ELSE /\ active_connections' = active_connections
                /\ handler' = [handler EXCEPT ![w] = "failed"]
    /\ UNCHANGED <<subscribed, db, kg, pending, run_vars, edge_shared, hist, fn, parked>>

\* connect: the confirmation is sent, connect returns and the handler waits in
\* websocket.receive_text
connect_sent ==
    /\ \E w \in Sockets :
        /\ handler[w] = "sending"
        /\ handler' = [handler EXCEPT ![w] = "connected"]
    /\ UNCHANGED <<active_connections, subscribed,
                   db, kg, pending, run_vars, edge_shared, hist, fn, parked>>

\* disconnect, called in the finally of the handler when the client has gone
\* or connect has raised: the websocket is discarded; when the set is empty
\* the coroutine awaits pubsub.unsubscribe
disconnect_begin ==
    /\ \E w \in Sockets :
        /\ handler[w] \in {"connected", "failed"}
        /\ IF story_id \in DOMAIN active_connections
           THEN /\ active_connections' =
                    [active_connections EXCEPT ![story_id] = @ \ {w}]
                /\ IF active_connections'[story_id] = {}
                   THEN /\ subscribed' = subscribed \ {story_id}
                        /\ handler' = [handler EXCEPT ![w] = "unsubscribing"]
                   ELSE /\ subscribed' = subscribed
                        /\ handler' = [handler EXCEPT ![w] = "closed"]
           ELSE /\ active_connections' = active_connections
                /\ subscribed' = subscribed
                /\ handler' = [handler EXCEPT ![w] = "closed"]
    /\ UNCHANGED <<db, kg, pending, run_vars, edge_shared, hist, fn, parked>>

\* disconnect: pubsub.unsubscribe has returned; del self.active_connections[story_id]
\* (its KeyError, when the entry is gone, is logged by except Exception)
disconnect_unsubscribed ==
    /\ \E w \in Sockets :
        /\ handler[w] = "unsubscribing"
        /\ active_connections' =
            [s \in DOMAIN active_connections \ {story_id} |-> active_connections[s]]
        /\ handler' = [handler EXCEPT ![w] = "closed"]
    /\ UNCHANGED <<subscribed, db, kg, pending, run_vars, edge_shared, hist, fn, parked>>

NextManager ==
    \/ connect_accept
    \/ connect_register
    \/ connect_subscribed
    \/ connect_sent
    \/ disconnect_begin
    \/ disconnect_unsubscribed

\* The manager on its own, beside any row of the story: no task runs.
SpecManager == Init /\ [][NextManager]_vars

----------------------------------------------------------------------------
(* The node functions of the graph and the Structure stage on their own:    *)
(* each is applied once to an AgentState drawn from the inputs, and fn      *)
(* keeps the argument beside the result left in agent_state and kg.         *)

\* The statuses route_from_supervisor compares with ==.
StageExact ==
    {INITIALIZING, AWAITING_USER_CLARIFICATION, AWAITING_DEVIATION_APPROVAL,
     READY_FOR_WRITING, SCENE_COMPLETED, WRITING_COMPLETE, ERROR}
    \cup {Approved(x) : x \in Levels}

\* Statuses that hold the approval marker beside something else.
MarkerStatuses ==
    {AWAITING_USER_APPROVAL}
    \cup {v \o AWAITING_USER_APPROVAL : v \in StageExact}
    \cup {AWAITING_USER_APPROVAL \o v : v \in StageExact}

NodeStatuses == Vocabulary \cup {NoStatus, READY} \cup MarkerStatuses

NodeState(status, queue, proposal) ==
    [initial_agent_state EXCEPT !.system_status = status, !.task_queue = queue,
                                !.deviation_proposal = proposal]

InitNodes ==
    /\ \/ /\ \E status \in NodeStatuses,
                queue \in {<< >>, <<GenerateChapters(ArcOne)>>},
                proposal \in {NoProposal, {Proposal(<<1, 1>>)}},
                asked \in BOOLEAN :
                agent_state =
                    IF asked
                    THEN [NodeState(status, queue, proposal) EXCEPT
                            !.agent_question = "What specific mystery",
                            !.messages = Append(@, Msg("agent_question",
                                                       "What specific mystery")),
                            !.current_scene_id = <<1, 1>>]
                    ELSE NodeState(status, queue, proposal)
          /\ kg = KGDeveloped
       \/ /\ \E queue \in InputQueues :
                agent_state = NodeState(Approved("ARCS"), queue, NoProposal)
          /\ kg \in {EmptyStore, KGDeveloped, KGArcs, KGChapters}
       \/ /\ agent_state = NodeState(INITIALIZING, << >>, NoProposal)
          /\ kg \in {EmptyStore, KGStory}
       \/ /\ agent_state = NodeState(Approved("CONCEPT"), << >>, NoProposal)
          /\ kg \in {KGConcept, KGClear, KGMixed}
       \/ /\ \E status \in {READY_FOR_WRITING, SCENE_COMPLETED} :
                agent_state = NodeState(status, << >>, NoProposal)
          /\ kg \in {KGChapters, KGScenes}
       \/ \E next \in {[kg |-> KGWritten, scene |-> <<1, 2>>],
                        [kg |-> KGLast, scene |-> <<1, 3>>]} :
            /\ agent_state = [NodeState(SCENE_COMPLETED, << >>, NoProposal)
                                EXCEPT !.current_scene_id = next.scene]
            /\ kg = next.kg
    /\ edge_shared \in BOOLEAN
    /\ db = NoRow
    /\ pending = 0
    /\ pc = "fn"
    /\ retries = 0
    /\ next_node = "supervisor"
    /\ step_count = 0
    /\ final_state = {}
    /\ hist = NoHistory
    /\ fn = NoFn
    /\ parked = << >>
    /\ InitManager

Applied(name, outcome, target) ==
    /\ fn' = [NoFn EXCEPT !.name = name, !.arg = agent_state, !.kg = kg,
                          !.outcome = outcome, !.target = target]
    /\ UNCHANGED <<db, pending, pc, retries, next_node, step_count, final_state,
                   edge_shared, hist, parked, manager_vars>>

\* A stage has been applied; raised: a call the stage made has raised.
AppliedStage(name, outcome, raised) ==
    /\ fn' = [NoFn EXCEPT !.name = name, !.arg = agent_state, !.kg = kg,
                          !.outcome = outcome, !.target = "supervisor",
                          !.flag = raised]
    /\ UNCHANGED <<db, pending, pc, retries, next_node, step_count, final_state,
                   edge_shared, hist, parked, manager_vars>>

apply_supervisor_node ==
    /\ pc = "fn" /\ fn = NoFn
    /\ agent_state' = supervisor_node(agent_state)
    /\ kg' = kg
    /\ Applied("supervisor_node", "ok", route_from_supervisor(agent_state))

apply_route_from_supervisor ==
    /\ pc = "fn" /\ fn = NoFn
    /\ agent_state' = state_after_route(agent_state, edge_shared)
    /\ kg' = kg
    /\ Applied("route_from_supervisor", "ok", route_from_supervisor(agent_state))

apply_user_approval_node ==
    /\ pc = "fn" /\ fn = NoFn
    /\ agent_state' = user_approval_node(agent_state)
    /\ kg' = kg
    /\ Applied("user_approval_node", "ok", "supervisor")

apply_user_clarification_node ==
    /\ pc = "fn" /\ fn = NoFn
    /\ agent_state' = user_clarification_node(agent_state)
    /\ kg' = kg
    /\ Applied("user_clarification_node", "ok", "supervisor")

apply_deviation_review_node ==
    /\ pc = "fn" /\ fn = NoFn
    /\ agent_state' = deviation_review_node(agent_state)
    /\ kg' = kg
    /\ Applied("deviation_review_node", "ok", "supervisor")

apply_architect_run ==
    /\ pc = "fn" /\ fn = NoFn
    /\ \E outcome \in Outcomes :
        LET r == architect_run(agent_state, kg, outcome) IN
        /\ agent_state' = r.state
        /\ kg' = r.kg
        /\ Applied("architect_run", outcome, "supervisor")

\* The stages are applied to the states the edge of the supervisor sends them.
\* The Concept stage calls the store and the generation service on every run.
apply_brainstormer_run ==
    /\ pc = "fn" /\ fn = NoFn
    /\ route_from_supervisor(agent_state) = "brainstormer"
    /\ \E outcome \in Outcomes :
        LET r == brainstormer_run(agent_state, kg, outcome) IN
        /\ agent_state' = r.state
        /\ kg' = r.kg
        /\ AppliedStage("brainstormer_run", outcome, outcome # "ok" \/ kg.story = 0)

\* The Character stage queries the store first; it calls the generation
\* service for a stub that is not sent back for clarification, so it makes the
\* call when the first stub is such a one.
apply_character_smith_run ==
    /\ pc = "fn" /\ fn = NoFn
    /\ route_from_supervisor(agent_state) = "character_smith"
    /\ \E outcome \in Outcomes, order \in Orders(Stubs(kg)) :
        LET r == character_smith_run(agent_state, kg, order, outcome) IN
        /\ agent_state' = r.state
        /\ kg' = r.kg
        /\ AppliedStage("character_smith_run", outcome,
                        \/ outcome = "store_error"
                        \/ /\ outcome = "llm_error"
                           /\ ~IsEmpty(order)
                           /\ ~_needs_clarification(Head(order)))

\* The Prose stage queries the store first; it calls the generation service
\* when there is a scene to write.
apply_prose_weaver_run ==
    /\ pc = "fn" /\ fn = NoFn
    /\ route_from_supervisor(agent_state) = "prose_weaver"
    /\ \E outcome \in ProseOutcomes :
        LET r == prose_weaver_run(agent_state, kg, outcome) IN
        /\ agent_state' = r.state
        /\ kg' = r.kg
        /\ AppliedStage("prose_weaver_run", outcome,
                        \/ outcome = "store_error"
                        \/ /\ outcome = "llm_error"
                           /\ (agent_state.current_scene_id # NoScene
                                 \/ OutlinedIds(kg) # {}))

\* The texts a character is drawn with: the lengths on both sides of the two
\* thresholds, and a word or phrase in a text long enough to hold it.
InputWords ==
    {"mysterious", "Mysterious", "MYSTERIOUS", "Unknown", "TBD", "tbd",
     "To Be Determined", "unclear", "Orphan"}

InputTexts ==
    {Text(n, {}) : n \in {0, 14, 15, 19, 20, 30}}
    \cup {Text(n, {w}) : n \in {19, 20, 30}, w \in InputWords}

InputCharacters ==
    {Character("Mentor", b, m) : b \in InputTexts, m \in InputTexts}

\* The Character stage is what calls the heuristic: it runs from CONCEPT_APPROVED.
apply__needs_clarification ==
    /\ pc = "fn" /\ fn = NoFn
    /\ agent_state = NodeState(Approved("CONCEPT"), << >>, NoProposal)
    /\ \E c \in InputCharacters :
        fn' = [NoFn EXCEPT !.name = "_needs_clarification", !.arg = agent_state,
                           !.kg = kg, !.character = c,
                           !.flag = _needs_clarification(c)]
    /\ UNCHANGED <<db, kg, pending, pc, retries, agent_state, next_node, step_count,
                   final_state, edge_shared, hist, parked, manager_vars>>

\* The in-memory log of n entries, each with a content of its own.
InputLog(n) == [i \in 1..n |-> Msg("agent_step", ToString(i))]

\* The driver persists a state whose log has grown to n entries; the row is
\* the one create_story inserted.
apply__update_story_state ==
    /\ pc = "fn" /\ fn = NoFn
    /\ agent_state = NodeState(INITIALIZING, << >>, NoProposal)
    /\ kg = KGStory
    /\ \E n \in 0..MaxLogLen, ok \in BOOLEAN :
        LET state == [agent_state EXCEPT !.messages = InputLog(n)] IN
        /\ agent_state' = state
        /\ db' = _update_story_state(Row(initial_control_state), state, ok)
        /\ fn' = [NoFn EXCEPT !.name = "_update_story_state", !.arg = state,
                              !.kg = kg, !.flag = ok]
    /\ UNCHANGED <<kg, pending, pc, retries, next_node, step_count, final_state,
                   edge_shared, hist, parked, manager_vars>>

NextNodes ==
    \/ apply__needs_clarification
    \/ apply__update_story_state
    \/ apply_supervisor_node
    \/ apply_route_from_supervisor
    \/ apply_user_approval_node
    \/ apply_user_clarification_node
    \/ apply_deviation_review_node
    \/ apply_architect_run
    \/ apply_brainstormer_run
    \/ apply_character_smith_run
    \/ apply_prose_weaver_run

SpecNodes == InitNodes /\ [][NextNodes]_vars

----------------------------------------------------------------------------
(* Properties. *)

Terminal == {WRITING_COMPLETE, ERROR}

\* The statuses in which the interface contract accepts feedback.
AwaitingFamily == {AWAITING_USER_CLARIFICATION} \cup {ApprovalFor(x) : x \in Levels}

\* C1: a status that contains AWAITING_USER_APPROVAL is routed to user_approval
\* by route_from_supervisor, whatever else the status contains.
C1_MarkerRoutesToApproval ==
    (fn.name = "route_from_supervisor"
        /\ Contains(fn.arg.system_status, AWAITING_USER_APPROVAL))
    => fn.target = "user_approval"

\* A status made of a stage-exact value and the marker has been routed.
C1_Witness ==
    /\ fn.name = "route_from_supervisor"
    /\ fn.arg.system_status = INITIALIZING \o AWAITING_USER_APPROVAL
    /\ fn.target = "user_approval"

\* C2: while the persisted status is WRITING_COMPLETE or ERROR, no step of a
\* driver run invokes a generation stage or changes the persisted status.
C2_TerminalAbsorption ==
    [][(/\ db.row
        /\ db.cs.system_status \in Terminal
        /\ hist'.interacts = hist.interacts)
       => (/\ db'.cs.system_status = db.cs.system_status
           /\ Len(hist'.stages) <= Len(hist.stages))]_vars

\* C3: a control_state the driver has persisted, reloaded and resumed, is
\* dispatched to the same target with the same head task as the run that
\* persisted it would have dispatched next.
C3_IdempotentResume ==
    \A p \in hist.snap :
        Dispatch(loaded_agent_state(p.cs), edge_shared) = p.next

\* A stage has run, and the state it left, with tasks in the queue, has been
\* persisted with the approval checkpoint due.
C3_Witness ==
    \E p \in hist.snap :
        /\ hist.stages = <<"architect">>
        /\ p.next.target = "user_approval"
        /\ p.next.head # << >>
        /\ Len(p.cs.task_queue) > 1
        /\ Dispatch(loaded_agent_state(p.cs), edge_shared) = p.next

\* The Structure stage has produced its children from the head task.
Produced ==
    /\ fn.name = "architect_run"
    /\ fn.outcome = "ok"
    /\ agent_state.system_status # ERROR

\* C4, as the claim states it: after a Structure-stage invocation that produced
\* its three children the queue is the previous queue without its head,
\* followed by three follow-up tasks (for arcs and chapters: the tasks of the
\* children, in production order).
C4_FanOutAsStated ==
    Produced =>
        LET prev == fn.arg.task_queue
            rest == Tail(prev)
            queue == agent_state.task_queue
        IN /\ Len(queue) = Len(rest) + 3
           /\ SubSeq(queue, 1, Len(rest)) = rest
           /\ Head(prev).task = "generate_arcs" =>
                SubSeq(queue, Len(rest) + 1, Len(queue)) =
                    <<GenerateChapters(ParsedArcs[1]), GenerateChapters(ParsedArcs[2]),
                      GenerateChapters(ParsedArcs[3])>>
           /\ Head(prev).task = "generate_chapters" =>
                SubSeq(queue, Len(rest) + 1, Len(queue)) =
                    <<GenerateScenes(1), GenerateScenes(2), GenerateScenes(3)>>

\* C4, amended: generate_arcs leaves the previous queue without its head
\* followed by one generate_chapters task per arc in production order;
\* generate_chapters leaves the previous queue without its head and without the
\* tasks that carry the same arc_title, followed by one generate_scenes task per
\* chapter in production order; generate_scenes leaves the previous queue
\* without its head and adds no task.
C4_FanOut ==
    Produced =>
        LET prev == fn.arg.task_queue
            rest == Tail(prev)
            head == Head(prev)
            queue == agent_state.task_queue
            OtherArc(task) == task.arc_title # head.arc_title
        IN CASE head.task = "generate_arcs" ->
                    queue = rest \o <<GenerateChapters(ParsedArcs[1]),
                                      GenerateChapters(ParsedArcs[2]),
                                      GenerateChapters(ParsedArcs[3])>>
             [] head.task = "generate_chapters" ->
                    queue = SelectSeq(rest, OtherArc)
                            \o <<GenerateScenes(1), GenerateScenes(2), GenerateScenes(3)>>
             [] head.task = "generate_scenes" -> queue = rest
             [] OTHER -> FALSE

\* generate_arcs has been processed at the head of a queue of two tasks.
C4_Witness ==
    /\ Produced
    /\ Len(fn.arg.task_queue) = 2
    /\ Head(fn.arg.task_queue).task = "generate_arcs"
    /\ Len(agent_state.task_queue) = 4

\* C5: feedback was submitted while the status was
\* AWAITING_USER_APPROVAL_FOR_CHARACTERS and the run it queued has completed
\* with no failure: the status of the story is CHARACTERS_APPROVED.
C5_ApprovalOfCharacters ==
    (/\ hist.interacts > 0
     /\ hist.fb_from = ApprovalFor("CHARACTERS")
     /\ pc = "idle"
     /\ pending = 0
     /\ hist.result = "completed"
     /\ ~hist.failed)
    => db.cs.system_status = Approved("CHARACTERS")

\* C6: the Structure stage invoked from status CHARACTERS_APPROVED receives a
\* task_queue with a generate_arcs task at its head.
C6_ArcsSeeded ==
    (/\ hist.stages # << >>
     /\ hist.stages[Len(hist.stages)] = "architect"
     /\ hist.stage_from = Approved("CHARACTERS"))
    => hist.stage_head = <<GenerateArcs>>

C8_FeedbackOnlyWhenAwaiting ==
    (hist.interacts > 0 /\ hist.fb_from \notin AwaitingFamily) => ~hist.fb_effect

\* C9: the driver initializes (Story node, status INITIALIZING) when the
\* persisted control_state is empty and when its status is INITIALIZING, and
\* otherwise resumes from the persisted status and queue.
C9_FirstRunInitialization ==
    (pc = "stream" /\ step_count = 0) =>
        IF hist.loaded.system_status \in {NoStatus, INITIALIZING}
        THEN hist.initialized /\ agent_state.system_status = INITIALIZING
        ELSE /\ ~hist.initialized
             /\ agent_state.system_status = hist.loaded.system_status
             /\ agent_state.task_queue = hist.loaded.task_queue

BannedTerms == {"mysterious", "unknown", "tbd", "to be determined", "unclear"}

ActiveRuns ==
    {0 : x \in {pc} \ {"idle"}} \cup {i \in 1..Len(parked) : parked[i].pc # "idle"}

\* C12: at most one driver run of the story is executing at any moment.
C12_OneActiveRun == Cardinality(ActiveRuns) <= 1

\* The status of the state the loop of the driver ended with.
FinalStatus == (CHOOSE s \in final_state : TRUE).system_status

\* The step is the return of "completed" by a run that stopped at a checkpoint.
SuspendedReturn ==
    /\ pc = "final"
    /\ pc' = "idle"
    /\ hist'.result = "completed"
    /\ final_state # {}
    /\ Contains(FinalStatus, AWAITING)

\* C13: a driver run applies no checkpoint handler (with a checkpoint node due,
\* the stream only ends), and when a run that stopped at a checkpoint returns,
\* the awaiting status it stopped with is the persisted status.
C13_SuspendsAtCheckpoint ==
    [][/\ (pc = "stream" /\ next_node \in InterruptBefore)
          => (pc' # "stream" /\ agent_state' \in {agent_state, initial_agent_state})
       /\ SuspendedReturn => db'.cs.system_status = FinalStatus]_vars

\* C14: a run returns "completed" only if the Control State of its final state
\* has been written to the row.
C14_SuccessImpliesPersisted ==
    [][(pc = "final" /\ pc' = "idle" /\ hist'.result = "completed" /\ final_state # {})
        => db'.cs = control_state_of(CHOOSE s \in final_state : TRUE)]_vars

\* C15: when a call made by a stage raises, run() returns the delta with the
\* status ERROR and the input log followed by one error entry.
C15_FailureReturnsErrorDelta ==
    (\/ fn.name \in {"brainstormer_run", "character_smith_run", "prose_weaver_run"}
          /\ fn.flag
     \/ fn.name = "architect_run" /\ fn.outcome # "ok") =>
        /\ agent_state.system_status = ERROR
        /\ Len(agent_state.messages) = Len(fn.arg.messages) + 1
        /\ SubSeq(agent_state.messages, 1, Len(fn.arg.messages)) = fn.arg.messages
        /\ agent_state.messages[Len(agent_state.messages)].type = "error"

\* The step is the except branch of the driver: the attempt ends in a retry or
\* in the return of "failed".
DriverRaised ==
    /\ pc \in {"load", "stream", "final"}
    /\ \/ retries' = retries + 1
       \/ pc' = "idle" /\ hist'.result = "failed"

\* C16: a failure leaves exactly one entry that describes it in the log of the
\* story; for an exception at the level of the driver, the log of the row the
\* error handler has written is the log before it followed by one error entry.
C16_DriverFailureLogged ==
    [][(DriverRaised /\ db' # db) =>
        /\ Len(db'.cs.messages) = Len(db.cs.messages) + 1
        /\ SubSeq(db'.cs.messages, 1, Len(db.cs.messages)) = db.cs.messages
        /\ db'.cs.messages[Len(db'.cs.messages)].type = "error"]_vars

\* C17: a step of the run in which a publish fails does not end the attempt,
\* and the state in memory and the row after it are those of the step with the
\* publish succeeding.
C17_PublishFailureSwallowed ==
    [][(hist'.expect # {} /\ hist'.expect # hist.expect) =>
        /\ pc' \in {"stream", "final"}
        /\ retries' = retries
        /\ hist'.expect = {[state |-> agent_state', db |-> db']}]_vars

\* A run in which a publish failed has stopped at the approval of the concept.
C17_Witness ==
    /\ hist.expect # {}
    /\ hist.result = "completed"
    /\ hist.end_status = ApprovalFor("CONCEPT")
    /\ db.cs.system_status = ApprovalFor("CONCEPT")

\* C18: a task is attempted again at most max_retries times, an attempt is
\* repeated only by the step in which the attempt before it raised, and the
\* step in which a stage returns the status ERROR takes no retry: the run goes
\* on to its end.
C18_BoundedRetries ==
    [][/\ retries' <= max_retries
       /\ retries' > retries =>
            /\ retries' = retries + 1
            /\ pc \in {"load", "stream", "final"}
            /\ pc' = "load"
            /\ hist'.failed /\ hist'.result = "retry"
       /\ (/\ pc = "stream"
           /\ next_node \in {"brainstormer", "character_smith", "architect",
                             "prose_weaver"}
           /\ hist'.stages # hist.stages
           /\ agent_state'.system_status = ERROR) =>
            /\ retries' = retries
            /\ pc' = "stream"
            /\ next_node' = "supervisor"]_vars

\* The third repetition of a task is under way.
C18_Witness ==
    /\ pc = "load"
    /\ retries = max_retries
    /\ hist.result = "retry"

\* C19: a failure with retries left is not escalated: the step that takes the
\* retry does not set the persisted status to ERROR, and it leaves the row as
\* it was persisted before the failure, for the next attempt to load.
C19_RetryKeepsControlState ==
    [][retries' > retries =>
        /\ (db'.cs.system_status = ERROR => db.cs.system_status = ERROR)
        /\ db' = db]_vars

\* C20: the status of the AgentState in memory, and the status of the row when
\* the row holds one, is a value of the status vocabulary.
C20_StatusInVocabulary ==
    /\ agent_state.system_status \in Vocabulary
    /\ db.cs.system_status \in Vocabulary \cup {NoStatus}

\* C21: of the statuses of the vocabulary only WRITING_COMPLETE and ERROR are
\* routed to the end by route_from_supervisor.
C21_OnlyTerminalRoutedToEnd ==
    (fn.name = "route_from_supervisor"
        /\ fn.arg.system_status \in Vocabulary \ Terminal)
    => fn.target # "end"

\* C22: route_from_supervisor returns a node for every status: the checkpoint
\* of the three checkpoint rules, else the stage of the exact status, else end.
C22_RouteTable ==
    (fn.name = "route_from_supervisor" /\ fn.arg.system_status # NoStatus) =>
        LET status == fn.arg.system_status IN
        fn.target =
            CASE Contains(status, AWAITING_USER_APPROVAL) -> "user_approval"
              [] status = AWAITING_USER_CLARIFICATION -> "user_clarification"
              [] status = AWAITING_DEVIATION_APPROVAL -> "deviation_review"
              [] status = INITIALIZING -> "brainstormer"
              [] status = Approved("CONCEPT") -> "character_smith"
              [] status \in StructureStatuses -> "architect"
              [] status \in {READY_FOR_WRITING, SCENE_COMPLETED} -> "prose_weaver"
              [] OTHER -> "end"

\* A status that no branch names has been routed to the end.
C22_Witness ==
    /\ fn.name = "route_from_supervisor"
    /\ fn.arg.system_status = READY
    /\ fn.target = "end"

\* C23: a character the Character stage has asked about stays a stub, and the
\* run that processes the feedback to the question dispatches the Character
\* stage again: its supervisor routes to character_smith.
C23_ClarifiedCharacterRetried ==
    [][(/\ pc = "stream" /\ next_node = "supervisor" /\ step_count = 0
        /\ step_count' = 1
        /\ hist.fb_from = AWAITING_USER_CLARIFICATION
        /\ hist.loaded.system_status = PROCESSING_FEEDBACK
        /\ hist.loaded.user_feedback = "feedback") =>
        /\ Stubs(kg) # {}
        /\ next_node' = "character_smith"]_vars

\* C24: a story created at INITIALIZING advances along the chain when its
\* checkpoints are answered and no stage fails: the run that follows the
\* answer to the approval of the concept invokes the Character stage, and the
\* Character stage, run on what the Concept stage has stored, hands its
\* characters over for approval.
C24_PipelineAdvances ==
    [][/\ (/\ pc = "final" /\ pc' = "idle" /\ hist'.result = "completed"
           /\ ~hist'.failed
           /\ hist.fresh
           /\ hist.fb_from = ApprovalFor("CONCEPT")
           /\ hist.loaded.user_feedback = "feedback") =>
            hist.stages = <<"character_smith">>
       /\ (/\ pc = "stream" /\ next_node = "character_smith"
           /\ step_count' = step_count + 1
           /\ kg = KGConcept
           /\ ~hist'.failed) =>
            agent_state'.system_status = ApprovalFor("CHARACTERS")]_vars

\* C25: a write that leaves the persisted status ERROR leaves a log in the row
\* whose last entry is the error entry of the failure.
C25_ErrorHasDiagnostic ==
    [][(db' # db /\ db'.cs.system_status = ERROR) =>
        /\ db'.cs.messages # << >>
        /\ db'.cs.messages[Len(db'.cs.messages)].type = "error"]_vars

\* C26: user_approval_node turns AWAITING_USER_APPROVAL_FOR_X into X_APPROVED
\* for each of the five levels X, appends one user_approval entry to the log,
\* and leaves the task queue, the pending question, the pending deviation and
\* the scene cursor as they were.
C26_ApprovalCheckpoint ==
    \A x \in Levels :
        (fn.name = "user_approval_node" /\ fn.arg.system_status = ApprovalFor(x)) =>
            /\ agent_state.system_status = Approved(x)
            /\ Len(agent_state.messages) = Len(fn.arg.messages) + 1
            /\ SubSeq(agent_state.messages, 1, Len(fn.arg.messages)) = fn.arg.messages
            /\ agent_state.messages[Len(agent_state.messages)].type = "user_approval"
            /\ agent_state.task_queue = fn.arg.task_queue
            /\ agent_state.agent_question = fn.arg.agent_question
            /\ agent_state.deviation_proposal = fn.arg.deviation_proposal
            /\ agent_state.current_scene_id = fn.arg.current_scene_id

\* The chapters have been approved with a task queued, a question and a
\* deviation pending and the cursor on a scene.
C26_Witness ==
    /\ fn.name = "user_approval_node"
    /\ fn.arg.system_status = ApprovalFor("CHAPTERS")
    /\ agent_state.system_status = Approved("CHAPTERS")
    /\ agent_state.task_queue = <<GenerateChapters(ArcOne)>>
    /\ agent_state.agent_question # "None"
    /\ agent_state.deviation_proposal # NoProposal
    /\ agent_state.current_scene_id = <<1, 1>>

\* C27: user_clarification_node leaves no pending question and no pending
\* deviation, sets the status PROCESSING_FEEDBACK, and leaves the task queue
\* and the scene cursor as they were.
C27_ClarificationCheckpoint ==
    fn.name = "user_clarification_node" =>
        /\ agent_state.agent_question = "None"
        /\ agent_state.deviation_proposal = NoProposal
        /\ agent_state.system_status = PROCESSING_FEEDBACK
        /\ agent_state.task_queue = fn.arg.task_queue
        /\ agent_state.current_scene_id = fn.arg.current_scene_id

\* The node has run with a question and a deviation pending, a task queued and
\* the cursor on a scene.
C27_Witness ==
    /\ fn.name = "user_clarification_node"
    /\ fn.arg.system_status = AWAITING_USER_CLARIFICATION
    /\ fn.arg.agent_question # "None"
    /\ fn.arg.deviation_proposal # NoProposal
    /\ agent_state.task_queue = <<GenerateChapters(ArcOne)>>
    /\ agent_state.current_scene_id = <<1, 1>>
    /\ agent_state.system_status = PROCESSING_FEEDBACK

\* C28: the feedback of the user does not outlive the run that processes it:
\* when a run that has loaded feedback returns "completed", the row holds no
\* user_feedback.
C28_FeedbackTransient ==
    [][(/\ pc = "final" /\ pc' = "idle" /\ hist'.result = "completed"
        /\ ~hist'.failed
        /\ hist.loaded.user_feedback = "feedback") =>
        db'.cs.user_feedback = "None"]_vars

\* Every generate_chapters task of the queue is ahead of every generate_scenes
\* task.
ChaptersFirst(queue) ==
    \A i, j \in 1..Len(queue) :
        (queue[i].task = "generate_scenes" /\ queue[j].task = "generate_chapters")
            => j < i

\* The queues the code builds from the empty queue and from [generate_arcs]:
\* the seed alone, or generate_chapters tasks followed by generate_scenes tasks.
Frontier(queue) ==
    \/ queue = <<GenerateArcs>>
    \/ /\ \A i \in 1..Len(queue) :
            queue[i].task \in {"generate_chapters", "generate_scenes"}
       /\ ChaptersFirst(queue)

\* C29: the Structure stage and the edge that seeds its queue keep the queue
\* a frontier, so the generate_chapters tasks are ahead of the generate_scenes
\* tasks, and the stage takes a generate_scenes task in hand only when no
\* generate_chapters task is left in the queue.
C29_BreadthFirst ==
    (/\ fn.name \in {"architect_run", "route_from_supervisor"}
     /\ Frontier(fn.arg.task_queue)) =>
        /\ Frontier(agent_state.task_queue)
        /\ ChaptersFirst(agent_state.task_queue)
        /\ (/\ fn.name = "architect_run"
            /\ ~IsEmpty(fn.arg.task_queue)
            /\ Head(fn.arg.task_queue).task = "generate_scenes") =>
                \A i \in 1..Len(fn.arg.task_queue) :
                    fn.arg.task_queue[i].task # "generate_chapters"

\* The chapters of the first arc have been generated with the second arc
\* waiting: its task is ahead of the three new generate_scenes tasks.
C29_Witness ==
    /\ Produced
    /\ fn.arg.task_queue = <<GenerateChapters(ArcOne), GenerateChapters(ParsedArcs[2])>>
    /\ agent_state.task_queue =
        <<GenerateChapters(ParsedArcs[2]), GenerateScenes(1), GenerateScenes(2),
          GenerateScenes(3)>>

OneChapterEach(queue, g) ==
    /\ \A i \in 1..Len(queue) :
        queue[i].task = "generate_scenes" =>
            Cardinality({ch \in g.chapters : ch[2] = queue[i].chapter_number}) = 1
    /\ \A s, t \in g.scenes :
        s.scene_id = t.scene_id => s.arc = t.arc /\ s.chapter = t.chapter

\* C31: an invocation of the Structure stage on a queue and a store in which
\* every generate_scenes task designates exactly one Chapter and every scene id
\* is the id of one Scene of one Chapter leaves a queue and a store of that
\* kind, also when the story has more than one arc.
C31_SceneOfOneChapter ==
    (/\ fn.name = "architect_run"
     /\ Frontier(fn.arg.task_queue)
     /\ OneChapterEach(fn.arg.task_queue, fn.kg)) =>
        OneChapterEach(agent_state.task_queue, kg)

\* C32: the Structure stage invoked with an empty task_queue, or with a head
\* task of a kind it does not know, returns the status ERROR and the log with
\* one error entry added that names the queue or the task (whatever the
\* generation service and the store would have done to a call), and leaves
\* the store, the queue and the other fields as they were.
C32_NoTaskIsAnError ==
    (/\ fn.name = "architect_run"
     /\ \/ IsEmpty(fn.arg.task_queue)
        \/ Head(fn.arg.task_queue).task \notin
                {"generate_arcs", "generate_chapters", "generate_scenes"}) =>
        /\ kg = fn.kg
        /\ \E content \in {"No architect tasks in queue", "Unknown architect task"} :
            agent_state = [fn.arg EXCEPT !.system_status = ERROR,
                                         !.messages = Append(@, Msg("error", content))]

\* The stage was invoked on a queue headed by a task of unknown kind while the
\* generation service was failing.
C32_Witness ==
    /\ fn.name = "architect_run"
    /\ fn.outcome = "llm_error"
    /\ Len(fn.arg.task_queue) = 2
    /\ Head(fn.arg.task_queue).task = "review"
    /\ agent_state.system_status = ERROR

\* The scene the Prose stage drafts: the cursor, or the first outlined scene.
Drafted(state, g) ==
    IF state.current_scene_id # NoScene THEN state.current_scene_id
    ELSE FirstOutlined(g)

\* C33: when the Prose stage returns AWAITING_DEVIATION_APPROVAL the proposal
\* names the scene it was drafting, the store is as it was before the
\* invocation (the scene's status and prose with it), and a scene that was
\* outlined is still outlined.
C33_DeviationLeavesScene ==
    (/\ fn.name = "prose_weaver_run"
     /\ agent_state.system_status = AWAITING_DEVIATION_APPROVAL) =>
        LET scene == Drafted(fn.arg, fn.kg) IN
        /\ agent_state.deviation_proposal = {Proposal(scene)}
        /\ kg = fn.kg
        /\ scene \in OutlinedIds(fn.kg) => scene \in OutlinedIds(kg)

\* The stage proposed a deviation for the scene the cursor points to, which
\* is outlined beside a scene that is written.
C33_Witness ==
    /\ fn.name = "prose_weaver_run"
    /\ agent_state.system_status = AWAITING_DEVIATION_APPROVAL
    /\ fn.arg.current_scene_id = <<1, 2>>
    /\ <<1, 2>> \in OutlinedIds(kg)
    /\ agent_state.deviation_proposal = {Proposal(<<1, 2>>)}

\* C34: the control_state the driver's persist writes holds as its log the
\* last entries of the in-memory log, at most LogWindow of them, in the order
\* of the in-memory log.
C34_LogWindowPersisted ==
    (fn.name = "_update_story_state" /\ fn.flag) =>
        LET log == fn.arg.messages
            kept == db.cs.messages
            n == IF Len(log) <= LogWindow THEN Len(log) ELSE LogWindow
        IN /\ db.row
           /\ Len(kept) = n
           /\ \A i \in 1..n : kept[i] = log[Len(log) - n + i]

\* A log of two entries more than the window was persisted.
C34_Witness ==
    /\ fn.name = "_update_story_state"
    /\ fn.flag
    /\ Len(fn.arg.messages) = LogWindow + 2
    /\ Len(db.cs.messages) = LogWindow
    /\ db.cs.messages[1] = fn.arg.messages[3]

\* C35: the log a supervisor, stage or checkpoint step returns has the log it
\* was given as a prefix: the step removes no entry and reorders none.
C35_LogAppendOnly ==
    fn.name \in {"supervisor_node", "user_approval_node", "user_clarification_node",
                 "deviation_review_node", "brainstormer_run", "character_smith_run",
                 "architect_run", "prose_weaver_run"} =>
        LET before == fn.arg.messages
            after == agent_state.messages
        IN /\ Len(before) <= Len(after)
           /\ SubSeq(after, 1, Len(before)) = before

\* The supervisor has added its trace entry behind the entry of the
\* initialization.
C35_Witness ==
    /\ fn.name = "supervisor_node"
    /\ fn.arg.messages = <<Msg("system", "Initialized story workflow")>>
    /\ agent_state.messages =
        <<Msg("system", "Initialized story workflow"),
          Msg("system", "Supervisor processing status")>>

\* C36: no control_state of the row, and no state of a run, holds a pending
\* question and a pending deviation proposal at once.
C36_QuestionOrDeviation ==
    /\ ~(db.cs.agent_question # "None" /\ db.cs.deviation_proposal # NoProposal)
    /\ ~(agent_state.agent_question # "None"
            /\ agent_state.deviation_proposal # NoProposal)

\* A run has ended with the question of the Character stage persisted, and
\* no proposal beside it.
C36_Witness ==
    /\ pc = "idle"
    /\ hist.result = "completed"
    /\ db.cs.system_status = AWAITING_USER_CLARIFICATION
    /\ db.cs.agent_question = "What specific mystery"
    /\ db.cs.deviation_proposal = NoProposal

\* C37: when the Prose stage returns WRITING_COMPLETE no scene of the store
\* is outlined, and when it returns SCENE_COMPLETED the cursor it returns is
\* the id of a scene that is outlined.
C37_CursorOnOutlinedScene ==
    fn.name = "prose_weaver_run" =>
        /\ agent_state.system_status = WRITING_COMPLETE =>
            \A s \in kg.scenes : s.status # "outlined"
        /\ agent_state.system_status = SCENE_COMPLETED =>
            /\ agent_state.current_scene_id # NoScene
            /\ \E s \in kg.scenes :
                s.scene_id = agent_state.current_scene_id /\ s.status = "outlined"

\* The stage has written the last outlined scene of a store of three scenes.
C37_Witness ==
    /\ fn.name = "prose_weaver_run"
    /\ fn.arg.current_scene_id = <<1, 3>>
    /\ <<1, 3>> \in OutlinedIds(fn.kg)
    /\ agent_state.system_status = WRITING_COMPLETE
    /\ Cardinality(kg.scenes) = 3

\* C38: when the Structure stage, invoked on a queue of the kind the code
\* builds, returns READY_FOR_WRITING, the queue it returns is empty.
C38_ReadyMeansQueueEmpty ==
    (/\ fn.name = "architect_run"
     /\ Frontier(fn.arg.task_queue)
     /\ agent_state.system_status = READY_FOR_WRITING) =>
        agent_state.task_queue = << >>

\* The scenes of the last queued chapter have been generated.
C38_Witness ==
    /\ Produced
    /\ fn.arg.task_queue = <<GenerateScenes(1)>>
    /\ agent_state.system_status = READY_FOR_WRITING
    /\ agent_state.task_queue = << >>
    /\ kg.scenes # {}

\* C39: feedback submitted while a run of the driver is under way is not lost:
\* when the run ends with its final persist, the row holds the feedback
\* beside the queue, the cursor and the log of the driver's last state.
C39_NoLostUpdate ==
    [][(/\ pc = "final" /\ pc' = "idle"
        /\ final_state # {}
        /\ ~hist'.failed
        /\ db.row
        /\ db.cs.user_feedback = "feedback"
        /\ agent_state.user_feedback = "None") =>
            /\ db'.cs.user_feedback = "feedback"
            /\ db'.cs.task_queue = agent_state.task_queue
            /\ db'.cs.current_scene_id = agent_state.current_scene_id
            /\ db'.cs.messages = LastN(agent_state.messages, LogWindow)]_vars

\* C40: under every interleaving of the connect and disconnect calls of the
\* websockets of a story, a websocket whose connect has returned and that has
\* not been disconnected is in active_connections[story_id]; when no call is
\* under way the manager is subscribed to the channel of the story exactly
\* when the story has a registered websocket; and no connect fails on a
\* missing entry of active_connections.
C40_RegistryConsistent ==
    /\ \A w \in Sockets :
        handler[w] = "connected" =>
            /\ story_id \in DOMAIN active_connections
            /\ w \in active_connections[story_id]
    /\ (\A w \in Sockets : handler[w] \in {"new", "connected", "closed"}) =>
        (story_id \in subscribed <=>
            /\ story_id \in DOMAIN active_connections
            /\ active_connections[story_id] # {})
    /\ \A w \in Sockets : handler[w] # "failed"
====
